---- MODULE Spec2Model ----
(***************************************************************************)
(* Model of the tile allocation of the waffle plot: Waffle.create_array    *)
(* (src/waffle_plot.py) and the same loop in waffle_plot                   *)
(* (src/waffle_plot_v1.1.py).  One behaviour is one call of create_array:  *)
(* the inputs are chosen in Init, the actions are the stages of the call.  *)
(* A proportion float(v) / sum(values) is kept as the exact pair <<v, s>>; *)
(* round(proportion * total) is round-half-to-even of v * total / s.       *)
(***************************************************************************)
EXTENDS Integers, Sequences, FiniteSets, TLC

\* ------------------------------------------------------------------ bounds
MaxN == 3          \* longest categories / values input
MaxNeg == 1        \* input values are >= -MaxNeg
MaxVal == 3        \* largest input value
MaxReq == 2        \* largest requested width / height
MaxDim == 5        \* cap of width / height in the autoscale loop of the model

VARIABLES
    in_categories,        \* the categories argument (labels are input positions)
    in_values,            \* the values argument
    reqWidth, reqHeight,  \* the width / height arguments
    vertical, autoscale,  \* the flags
    categories, values,   \* self.categories, self.values
    values_non_zero,      \* self.values_non_zero
    proportions_non_zero, \* self.proportions_non_zero, a sequence of <<num, den>>
    proportions,          \* self.proportions, a sequence of <<num, den>>
    width, height,        \* self.width, self.height
    tiles_per_category,   \* the local of the current pass
    array,                \* self.array: a sequence of rows
    pc,                   \* position in create_array
    err,                  \* the exception that left create_array, or "none"
    retries,              \* number of width/height increments so far
    passes                \* number of fill passes so far

vars == <<in_categories, in_values, reqWidth, reqHeight, vertical, autoscale,
          categories, values, values_non_zero, proportions_non_zero,
          proportions, width, height, tiles_per_category, array, pc, err,
          retries, passes>>

inputs == <<in_categories, in_values, reqWidth, reqHeight, vertical, autoscale>>

\* ------------------------------------------------------------ pure helpers
Min(a, b) == IF a < b THEN a ELSE b

\* F applied to the value of v, with v evaluated once
Bind(v, F(_)) == CHOOSE r \in {F(x) : x \in {v}} : TRUE

RECURSIVE SumSeq(_)
SumSeq(s) == IF s = <<>> THEN 0 ELSE Head(s) + SumSeq(Tail(s))

\* s[0:n] of Python: the slice stops at the end of the list
Slice(s, n) == SubSeq(s, 1, Min(n, Len(s)))

\* zip(categories, values): as long as the shorter argument
Zip(cs, vs) == [i \in 1..Min(Len(cs), Len(vs)) |-> <<cs[i], vs[i]>>]

\* the sort step of an unstable descending sort: p goes in front of the pairs
\* of equal value (an ascending sort reversed afterwards)
InsertDesc_Unstable(s, p) ==
    LET k == Cardinality({i \in 1..Len(s) : s[i][2] > p[2]})
    IN SubSeq(s, 1, k) \o <<p>> \o SubSeq(s, k + 1, Len(s))

\* one step of the stable descending sort: p goes behind every pair whose
\* value is >= its own
InsertDesc(s, p) ==
    LET k == Cardinality({i \in 1..Len(s) : s[i][2] >= p[2]})
    IN SubSeq(s, 1, k) \o <<p>> \o SubSeq(s, k + 1, Len(s))

RECURSIVE SortedDesc(_)
\* sorted(pairs, key=lambda x: x[1], reverse=True)
SortedDesc(s) ==
    IF s = <<>> THEN <<>>
    ELSE Bind(SortedDesc(SubSeq(s, 1, Len(s) - 1)),
              LAMBDA sorted : InsertDesc(sorted, s[Len(s)]))

\* round(n / d) of Python 3: round half to even, d # 0
Round(n, d) ==
    LET nn == IF d < 0 THEN 0 - n ELSE n
        dd == IF d < 0 THEN 0 - d ELSE d
        q == nn \div dd
        r == nn % dd
    IN IF 2 * r < dd THEN q
       ELSE IF 2 * r > dd THEN q + 1
       ELSE IF q % 2 = 0 THEN q ELSE q + 1

\* [v for v in values if v > 0] as proportions
ProportionsNonZero(vs) ==
    LET pos == SelectSeq(vs, LAMBDA v : v > 0)
    IN [i \in 1..Len(pos) |-> <<pos[i], SumSeq(vs)>>]

\* line 204 without its "if v > 0": the division is evaluated for every value
DivisionByZero204_NoFilter(vs) == SumSeq(vs) = 0 /\ Len(vs) > 0

\* the division of line 204 is evaluated at all, and by zero
DivisionByZero204(vs) == SumSeq(vs) = 0 /\ \E i \in 1..Len(vs) : vs[i] > 0

\* any(self.values) > 0: any() is True as soon as some value is non-zero
AnyValues(vs) == \E i \in 1..Len(vs) : vs[i] # 0

\* the tile counts truncated with int() instead of rounded
TilesPerCategory_Floor(props, total) ==
    [i \in 1..Len(props) |->
        IF props[i][2] < 0
        THEN (0 - props[i][1] * total) \div (0 - props[i][2])
        ELSE (props[i][1] * total) \div props[i][2]]

\* lines 214-216
TilesPerCategory(props, total) ==
    [i \in 1..Len(props) |-> Round(props[i][1] * total, props[i][2])]

\* lines 241-243 with a "while" in place of the "if": the index runs on to
\* the first category whose cumulative count covers the tile
StepCategory_SkipEmpty(tiles, tile_index, category_index) ==
    IF tile_index + 1 > SumSeq(Slice(tiles, category_index))
    THEN LET covering == {c \in (category_index + 1)..Len(tiles) :
                            tile_index + 1 <= SumSeq(Slice(tiles, c))}
         IN IF covering # {}
            THEN CHOOSE c \in covering : \A d \in covering : c <= d
            ELSE IF category_index < Len(tiles) + 1
                 THEN Len(tiles) + 1
                 ELSE category_index + 1
    ELSE category_index

\* lines 237-243: the category_index written at the tile after tile_index
StepCategory(tiles, tile_index, category_index) ==
    IF tile_index + 1 > SumSeq(Slice(tiles, category_index))
    THEN category_index + 1
    ELSE category_index

RECURSIVE InnerLoop(_, _, _, _)
\* "for j in range(y)" started with the given counters: the y category
\* indices it writes, in order
InnerLoop(tiles, tile_index, category_index, y) ==
    IF y = 0 THEN <<>>
    ELSE Bind(StepCategory(tiles, tile_index, category_index),
              LAMBDA ci : <<ci>> \o InnerLoop(tiles, tile_index + 1, ci, y - 1))

RECURSIVE OuterLoop(_, _, _, _, _)
\* "for i in range(x)" started with the given counters: one sequence of
\* category indices per i
OuterLoop(tiles, tile_index, category_index, x, y) ==
    IF x = 0 THEN <<>>
    ELSE Bind(InnerLoop(tiles, tile_index, category_index, y),
              LAMBDA line : <<line>> \o OuterLoop(tiles, tile_index + y, line[y], x - 1, y))

\* the fill with the vertical flag ignored: always column by column
FillArray_IgnoreVertical(tiles, w, h, vert) ==
    Bind(OuterLoop(tiles, 0, 0, w, h),
         LAMBDA written : [r \in 1..h |-> [c \in 1..w |-> written[c][r]]])

\* self.array after the two nested loops: the index written at (i, j) goes
\* to array[j][i] when vertical, to array[i][j] otherwise
FillArray(tiles, w, h, vert) ==
    Bind(OuterLoop(tiles, 0, 0, IF vert THEN w ELSE h, IF vert THEN h ELSE w),
         LAMBDA written : [r \in 1..h |-> [c \in 1..w |->
                              IF vert THEN written[c][r] ELSE written[r][c]]])

\* set([item for sublist in self.array for item in sublist])
Distinct(a) == {a[r][c] : r \in 1..Len(a), c \in 1..(IF Len(a) = 0 THEN 0 ELSE Len(a[1]))}

\* the comparison of line 252 with the last category left out
CategoryMissing_OffByOne(a, props) == Cardinality(Distinct(a)) < Len(props) - 1

\* the comparison of line 252 written <= instead of <
CategoryMissing_LessEqual(a, props) == Cardinality(Distinct(a)) <= Len(props)

\* the condition of line 252
CategoryMissing(a, props) == Cardinality(Distinct(a)) < Len(props)

\* ------------------------------------------------------------------- Init
RECURSIVE AutoscaleLoop(_, _, _, _, _)
\* lines 210-263 as a function of the attributes the loop reads: the array,
\* width and height the while loop ends with (ended = FALSE: still missing a
\* category at the cap of the model)
AutoscaleLoop(props, w, h, vert, auto) ==
    Bind(FillArray(TilesPerCategory(props, w * h), w, h, vert),
         LAMBDA a :
            IF CategoryMissing(a, props) /\ auto
            THEN IF w < MaxDim /\ h < MaxDim
                 THEN AutoscaleLoop(props, w + 1, h + 1, vert, auto)
                 ELSE [array |-> a, width |-> w, height |-> h, ended |-> FALSE]
            ELSE [array |-> a, width |-> w, height |-> h, ended |-> TRUE])

\* the values arguments: non-empty lists of small integers
ValueInputs == UNION {[1..n -> (0 - MaxNeg)..MaxVal] : n \in 1..MaxN}

\* the categories arguments: a label is the position it is given at
CategoryInputs == {[i \in 1..m |-> i] : m \in 0..MaxN}

Init ==
    /\ in_values \in ValueInputs
    /\ in_categories \in CategoryInputs
    /\ reqWidth \in 1..MaxReq
    /\ reqHeight \in 1..MaxReq
    /\ vertical \in BOOLEAN
    /\ autoscale \in BOOLEAN
    /\ categories = in_categories
    /\ values = in_values
    /\ values_non_zero = 0
    /\ proportions_non_zero = <<>>
    /\ proportions = <<>>
    /\ width = reqWidth
    /\ height = reqHeight
    /\ tiles_per_category = <<>>
    /\ array = <<>>
    /\ pc = "start"
    /\ err = "none"
    /\ retries = 0
    /\ passes = 0

\* ---------------------------------------------------------------- actions
\* lines 197-208: sort, count and compute the non-zero proportions
SortInputs ==
    /\ pc = "start"
    /\ \E pairs \in {SortedDesc(Zip(in_categories, in_values))} :
       LET cs == [i \in 1..Len(pairs) |-> pairs[i][1]]
           vs == [i \in 1..Len(pairs) |-> pairs[i][2]]
       IN IF pairs = <<>>
          THEN \* zip(*[]) yields nothing to unpack into two names
               /\ pc' = "raised"
               /\ err' = "ValueError"
               /\ UNCHANGED <<categories, values, values_non_zero,
                              proportions_non_zero>>
          ELSE /\ categories' = cs
               /\ values' = vs
               /\ values_non_zero' = Len(SelectSeq(vs, LAMBDA v : v > 0))
               /\ IF DivisionByZero204(vs)
                  THEN /\ pc' = "raised"
                       /\ err' = "ZeroDivisionError"
                       /\ UNCHANGED proportions_non_zero
                  ELSE /\ pc' = "loop"
                       /\ err' = "none"
                       /\ proportions_non_zero' = ProportionsNonZero(vs)
    /\ UNCHANGED <<inputs, proportions, width, height, tiles_per_category,
                   array, retries, passes>>

\* lines 212-250: one pass of the while loop up to the filled array
FillPass ==
    /\ pc = "loop"
    /\ tiles_per_category' = TilesPerCategory(proportions_non_zero, width * height)
    /\ array' = FillArray(tiles_per_category', width, height, vertical)
    /\ passes' = passes + 1
    /\ pc' = "check"
    /\ UNCHANGED <<inputs, categories, values, values_non_zero,
                   proportions_non_zero, proportions, width, height, err,
                   retries>>

\* the retry taken without looking at self.autoscale
Retry_IgnoreAutoscale ==
    /\ pc = "check"
    /\ CategoryMissing(array, proportions_non_zero)
    /\ width < MaxDim
    /\ height < MaxDim
    /\ width' = width + 1
    /\ height' = height + 1
    /\ retries' = retries + 1
    /\ pc' = "loop"
    /\ UNCHANGED <<inputs, categories, values, values_non_zero,
                   proportions_non_zero, proportions, tiles_per_category,
                   array, err, passes>>

\* the retry with "self.height += 1" left out
Retry_WidthOnly ==
    /\ pc = "check"
    /\ CategoryMissing(array, proportions_non_zero)
    /\ autoscale
    /\ width < MaxDim
    /\ height < MaxDim
    /\ width' = width + 1
    /\ retries' = retries + 1
    /\ pc' = "loop"
    /\ UNCHANGED <<inputs, categories, values, values_non_zero,
                   proportions_non_zero, proportions, tiles_per_category,
                   array, err, passes, height>>

\* lines 252-259: a category is missing and autoscale is on
Retry ==
    /\ pc = "check"
    /\ CategoryMissing(array, proportions_non_zero)
    /\ autoscale
    /\ width < MaxDim
    /\ height < MaxDim
    /\ width' = width + 1
    /\ height' = height + 1
    /\ retries' = retries + 1
    /\ pc' = "loop"
    /\ UNCHANGED <<inputs, categories, values, values_non_zero,
                   proportions_non_zero, proportions, tiles_per_category,
                   array, err, passes>>

\* lines 260-263: the loop ends
Accept ==
    /\ pc = "check"
    /\ ~(CategoryMissing(array, proportions_non_zero) /\ autoscale)
    /\ pc' = "post"
    /\ UNCHANGED <<inputs, categories, values, values_non_zero,
                   proportions_non_zero, proportions, width, height,
                   tiles_per_category, array, err, retries, passes>>

\* lines 265-294: reduce the bins, compute the proportions, return
Finish ==
    /\ pc = "post"
    /\ values_non_zero' =
          IF ~autoscale /\ Cardinality(Distinct(array)) < values_non_zero
          THEN Cardinality(Distinct(array))
          ELSE values_non_zero
    /\ IF AnyValues(values)
       THEN IF SumSeq(values) = 0
            THEN /\ pc' = "raised"
                 /\ err' = "ZeroDivisionError"
                 /\ UNCHANGED proportions
            ELSE /\ pc' = "done"
                 /\ err' = "none"
                 /\ proportions' = [i \in 1..Len(values) |-> <<values[i], SumSeq(values)>>]
       ELSE /\ pc' = "done"
            /\ err' = "none"
            /\ proportions' = [i \in 1..Len(values) |-> <<1, 1>>]
    /\ UNCHANGED <<inputs, categories, values, proportions_non_zero, width,
                   height, tiles_per_category, array, retries, passes>>

Next == SortInputs \/ FillPass \/ Retry \/ Accept \/ Finish

Spec == Init /\ [][Next]_vars

\* ------------------------------------------- the call from its construction
\* before Waffle(...) is constructed: no attribute is set yet
NotConstructed ==
    /\ in_categories = <<>> /\ in_values = <<>>
    /\ reqWidth = 0 /\ reqHeight = 0
    /\ vertical = FALSE /\ autoscale = FALSE
    /\ categories = <<>> /\ values = <<>>
    /\ values_non_zero = 0
    /\ proportions_non_zero = <<>> /\ proportions = <<>>
    /\ width = 0 /\ height = 0
    /\ tiles_per_category = <<>> /\ array = <<>>
    /\ pc = "new" /\ err = "none"
    /\ retries = 0 /\ passes = 0

\* Waffle.__init__: the arguments become the attributes, which is a state
\* of Init; here the caller passes one label per value
Construct ==
    /\ pc = "new"
    /\ in_values' \in ValueInputs
    /\ in_categories' = [i \in 1..Len(in_values') |-> i]
    /\ reqWidth' \in 1..MaxReq
    /\ reqHeight' \in 1..MaxReq
    /\ vertical' \in BOOLEAN
    /\ autoscale' \in BOOLEAN
    /\ categories' = in_categories'
    /\ values' = in_values'
    /\ width' = reqWidth'
    /\ height' = reqHeight'
    /\ pc' = "start"
    /\ UNCHANGED <<values_non_zero, proportions_non_zero, proportions,
                   tiles_per_category, array, err, retries, passes>>

LiveNext == Construct \/ SortInputs \/ FillPass \/ Retry \/ Accept \/ Finish

\* create_array is straight-line code and loops without waiting: once
\* called it keeps taking steps
LiveSpec == NotConstructed /\ [][LiveNext]_vars /\ WF_vars(Next)

\* ------------------------------------------------------- shared predicates
Cells(a) == {<<r, c>> : r \in 1..Len(a), c \in 1..(IF Len(a) = 0 THEN 0 ELSE Len(a[1]))}

Filled == pc \in {"check", "post", "done"}

SameLength == Len(in_categories) = Len(in_values)

AllPositive(vs) == \A i \in 1..Len(vs) : vs[i] > 0

AllZero(vs) == \A i \in 1..Len(vs) : vs[i] = 0

NonNegative(vs) == \A i \in 1..Len(vs) : vs[i] >= 0

SomePositive(vs) == \E i \in 1..Len(vs) : vs[i] > 0

SomeNegative(vs) == \E i \in 1..Len(vs) : vs[i] < 0

\* the k-th category of the sorted list (k = 1..N) owns the cells holding k:
\* category_index is 1 at the first tile and the colormap starts at the
\* smallest cell value
Owns(k) == k \in Distinct(array)

\* ---------------------------------------------------------------- claims
\* C1: all values > 0 and autoscale on: when create_array has completed,
\* every category of the sorted list is represented by at least one cell.
C1_EveryCategoryRepresented ==
    (pc = "done" /\ autoscale /\ AllPositive(values))
        => \A k \in 1..Len(categories) : Owns(k)

\* C1 witness: a completed call with three positive categories that needed
\* a retry to show them all.
C1_Witness ==
    /\ pc = "done" /\ autoscale /\ AllPositive(values)
    /\ Len(categories) = 3 /\ retries >= 1
    /\ \A k \in 1..3 : Owns(k)

\* C2 (as claimed): every cell of every grid holds a zero-based index into
\* the sorted category list, an integer in 0..len(categories)-1.
C2_CellsAreZeroBasedIndices ==
    Filled => \A rc \in Cells(array) :
                 array[rc[1]][rc[2]] \in 0..(Len(categories) - 1)

\* C3 (as claimed): no cell of a grid is assigned to a category whose value
\* is <= 0.
C3_NonPositiveGetsNoTile ==
    Filled => \A k \in 1..Len(values) : values[k] <= 0 => ~Owns(k)

\* C4: autoscale on, equal-length inputs, no negative value and at least one
\* positive value: the retry loop ends and create_array returns, with a grid
\* whose distinct-index count is at least the number of positive categories.
C4_AutoscaleTerminates ==
    (pc = "start" /\ autoscale /\ SameLength /\ NonNegative(in_values)
                  /\ SomePositive(in_values))
        ~> (pc = "done" /\ ~CategoryMissing(array, proportions_non_zero))

\* C4 witness: such a call has returned after at least two retries.
C4_Witness ==
    /\ pc = "done" /\ autoscale /\ SameLength
    /\ NonNegative(in_values) /\ SomePositive(in_values)
    /\ retries >= 2
    /\ ~CategoryMissing(array, proportions_non_zero)

\* C5: width and height never decrease; they change only in a retry, which
\* adds exactly 1 to both; so at every moment, and at the end,
\* width - requested width = height - requested height = number of retries.
C5_AutoscaleOnlyGrows ==
    /\ [](/\ width - reqWidth = retries
          /\ height - reqHeight = retries
          /\ width >= reqWidth /\ height >= reqHeight)
    /\ [][/\ width' >= width /\ height' >= height
          /\ (width' # width \/ height' # height \/ retries' # retries)
                => (/\ width' = width + 1
                    /\ height' = height + 1
                    /\ retries' = retries + 1)]_vars

\* C5 witness: a call that returned after two retries, two larger each way.
C5_Witness ==
    /\ pc = "done" /\ retries = 2
    /\ width = reqWidth + 2 /\ height = reqHeight + 2

\* C6: for the same sorted categories and values and the same autoscale flag,
\* the call with (width, height, vertical) and the call with (height, width,
\* not vertical) end with swapped dimensions and transposed grids.
C6_OrientationSymmetry ==
    pc \in {"post", "done"} =>
        LET m == AutoscaleLoop(proportions_non_zero, reqHeight, reqWidth,
                               ~vertical, autoscale)
        IN /\ m.ended
           /\ m.width = height /\ m.height = width
           /\ Len(m.array) = width
           /\ \A r \in 1..height : \A c \in 1..width :
                 array[r][c] = m.array[c][r]

\* C6 witness: a returned, retried, non-square grid with two indices in it.
C6_Witness ==
    /\ pc = "done" /\ retries >= 1 /\ width # height
    /\ Cardinality(Distinct(array)) >= 2

\* C7: every value 0 (equal-length inputs): no exception, no growth, and the
\* returned grid has requested-height rows of requested-width cells.
C7_AllZeroNoError ==
    (SameLength /\ AllZero(in_values)) =>
        /\ err = "none" /\ pc # "raised"
        /\ retries = 0 /\ width = reqWidth /\ height = reqHeight
        /\ pc = "done" =>
              /\ Len(array) = reqHeight
              /\ \A r \in 1..Len(array) : Len(array[r]) = reqWidth
              /\ proportions = [i \in 1..Len(values) |-> <<1, 1>>]

\* C7 witness: an all-zero call with several categories has returned.
C7_Witness ==
    /\ pc = "done" /\ SameLength /\ AllZero(in_values) /\ Len(in_values) >= 2
    /\ err = "none" /\ Len(array) = reqHeight

\* C8 (as claimed): categories and values of different lengths: the call
\* fails with an invalid-input error (ValueError is taken as one) before
\* anything is sorted, built or resized.
C8_MismatchRejected ==
    ~SameLength =>
        /\ pc \in {"start", "raised"}
        /\ pc = "raised" => err \in {"InvalidInput", "ValueError"}
        /\ categories = in_categories /\ values = in_values
        /\ array = <<>> /\ width = reqWidth /\ height = reqHeight

\* the values with every negative one replaced by 0
Zeroed(vs) == [i \in 1..Len(vs) |-> IF vs[i] < 0 THEN 0 ELSE vs[i]]

\* C9 (as claimed): an input with negative values never faults, and its grid
\* is the grid of the same input with the negative values taken as 0.
C9_NegativesNeverFault ==
    (SameLength /\ SomeNegative(in_values)) =>
        /\ err = "none" /\ pc # "raised"
        /\ pc = "done" =>
              array = AutoscaleLoop(ProportionsNonZero(Zeroed(values)),
                                    reqWidth, reqHeight, vertical, autoscale).array

\* C10: autoscale off: one fill pass at most, none repeated, dimensions as
\* requested, and the returned grid has requested-height rows of
\* requested-width cells, also when a positive category is missing.
C10_NoAutoscaleKeepsDimensions ==
    ~autoscale =>
        /\ retries = 0 /\ passes <= 1
        /\ width = reqWidth /\ height = reqHeight
        /\ pc \in {"check", "post", "done"} =>
              /\ passes = 1
              /\ Len(array) = reqHeight
              /\ \A r \in 1..Len(array) : Len(array[r]) = reqWidth

\* C10 witness: a call without autoscale returned a grid that misses a
\* positive category.
C10_Witness ==
    /\ pc = "done" /\ ~autoscale
    /\ CategoryMissing(array, proportions_non_zero)
    /\ passes = 1 /\ Len(array) = reqHeight

\* the sort of lines 198-200 has run and assigned self.categories, self.values
Sorted == pc # "start" /\ err # "ValueError"

\* C11: after preprocessing the (category, value) pairs are the zipped input
\* pairs rearranged: each label (an input position) appears once and carries
\* its own input value, the values are in descending order, and pairs of
\* equal value keep their input order.
C11_SortedStablePermutation ==
    Sorted =>
        /\ Len(categories) = Min(Len(in_categories), Len(in_values))
        /\ Len(values) = Len(categories)
        /\ {categories[i] : i \in 1..Len(categories)} = 1..Len(categories)
        /\ \A i \in 1..Len(categories) : values[i] = in_values[categories[i]]
        /\ \A i \in 1..(Len(values) - 1) :
              /\ values[i] >= values[i + 1]
              /\ values[i] = values[i + 1] => categories[i] < categories[i + 1]

\* C11 witness: a returned call whose input was out of order and had a tie:
\* the sort moved a label and kept the tied ones in input order.
C11_Witness ==
    /\ pc = "done" /\ SameLength /\ Len(values) = 3
    /\ categories # in_categories
    /\ \E i \in 1..2 : values[i] = values[i + 1] /\ categories[i] < categories[i + 1]

\* number of cells of the grid that hold k
CellCount(k) == Cardinality({rc \in Cells(array) : array[rc[1]][rc[2]] = k})

\* the largest index present in the grid
MaxIndex == CHOOSE m \in Distinct(array) : \A k \in Distinct(array) : k <= m

\* round(p * width * height) for the k-th sorted category, p = value / sum
RoundedShare(k) == Round(values[k] * width * height, SumSeq(values))

\* C12 (as claimed, and only for inputs without negative values): in the
\* final grid every positive-value category other than the one holding the
\* largest index present occupies exactly round(p * width * height) cells.
C12_ExactShareExceptLast ==
    (pc = "done" /\ NonNegative(values)) =>
        \A k \in 1..Len(values) :
            (values[k] > 0 /\ k # MaxIndex) => CellCount(k) = RoundedShare(k)

\* C12 (amended): in every filled grid a positive-value category whose index
\* is present and is not the largest index present occupies exactly
\* max(1, round(p * width * height)) cells; one whose index is absent
\* occupies none.
C12_ShareOfPresentCategories ==
    Filled =>
        \A k \in 1..Len(values) :
            values[k] > 0 =>
                /\ (k \in Distinct(array) /\ k < MaxIndex) =>
                      CellCount(k) = IF RoundedShare(k) >= 1
                                     THEN RoundedShare(k) ELSE 1
                /\ k \notin Distinct(array) => CellCount(k) = 0

\* C12 witness: a returned grid with three indices whose first two categories
\* hold their rounded shares, the first one more than one cell.
C12_Witness ==
    /\ pc = "done" /\ Len(values) = 3 /\ AllPositive(values)
    /\ MaxIndex >= 3
    /\ CellCount(1) >= 2 /\ CellCount(1) = RoundedShare(1)
    /\ CellCount(2) = RoundedShare(2)

\* min of the positive values: min(proportions_non_zero) is this over the sum
MinPositive ==
    CHOOSE v \in {values[i] : i \in 1..Len(values)} :
        /\ v > 0
        /\ \A i \in 1..Len(values) : values[i] > 0 => v <= values[i]

\* the step is a retry of an autoscale call on non-negative values, some > 0
RetryStep ==
    /\ width' # width
    /\ autoscale /\ NonNegative(values) /\ SomePositive(values)

\* C13 (as claimed): every grid from which the loop retries has
\* width * height < 1 / min(proportions_non_zero), i.e.
\* width * height * (smallest positive value) < sum(values).
C13_RetryBelowInverseMinProportion ==
    [][RetryStep => width * height * MinPositive < SumSeq(values)]_vars

\* C13 (amended): every grid from which the loop retries has
\* width * height < ((K + 1) / 2) / min(proportions_non_zero), K the number
\* of positive categories.
C13_RetryBelowScaledBound ==
    [][RetryStep =>
          2 * width * height * MinPositive
              < (Len(proportions_non_zero) + 1) * SumSeq(values)]_vars

\* C13 witness: a retry was taken from a grid of at least
\* 1 / min(proportions_non_zero) tiles, below the amended bound.
C13_Witness ==
    /\ pc = "loop" /\ retries >= 1
    /\ autoscale /\ NonNegative(values) /\ SomePositive(values)
    /\ (width - 1) * (height - 1) * MinPositive >= SumSeq(values)
    /\ 2 * (width - 1) * (height - 1) * MinPositive
          < (Len(proportions_non_zero) + 1) * SumSeq(values)

\* the cell written at the t-th tile of the scan (t = 1..width * height):
\* column by column when vertical, row by row otherwise
ScanCell(t) ==
    IF vertical
    THEN array[((t - 1) % height) + 1][((t - 1) \div height) + 1]
    ELSE array[((t - 1) \div width) + 1][((t - 1) % width) + 1]

\* C14: in every filled grid, read in fill order, the first cell holds the
\* first index (1), every next cell holds the same value or the next one, and
\* so the values present are a gap-free range, each in one contiguous run.
C14_ContiguousBlocks ==
    Filled =>
        /\ ScanCell(1) = 1
        /\ \A t \in 1..(width * height - 1) :
              ScanCell(t + 1) \in {ScanCell(t), ScanCell(t) + 1}
        /\ Distinct(array) = 1..MaxIndex

\* C14 witness: a returned row-by-row, non-square grid with three indices,
\* the first of them in a run of several cells.
C14_Witness ==
    /\ pc = "done" /\ ~vertical /\ width # height
    /\ MaxIndex >= 3 /\ CellCount(1) >= 2
    /\ ScanCell(1) = 1 /\ ScanCell(2) = 1

====
